---- MODULE Spec2Model ----
(***************************************************************************)
(* A model of the waybackmachine-client crate of archive-pdf-urls:         *)
(* ArchivableUrl::parse (archivableurl.rs), ClientConfig,                  *)
(* WaybackMachineClient::check_recent_archive_exists and                   *)
(* WaybackMachineClient::archive_url (lib.rs), run by caller tasks against *)
(* a remote service whose responses are chosen nondeterministically.       *)
(***************************************************************************)
EXTENDS Integers, Sequences, FiniteSets, TLC

(***************************************************************************)
(* Bounds of the model.                                                    *)
(***************************************************************************)
\* archive_url calls one caller task makes, one after the other
MaxCalls == 2
\* days the wall clock may advance after the client was constructed
MaxTicks == 1

(***************************************************************************)
(* Program constants.                                                      *)
(***************************************************************************)
DEFAULT_MAX_REQUEST_RETRIES == 10
DEFAULT_ARCHIVE_THRESHOLD_DAYS == 30
\* the retry ceiling the crate's tests configure their client with
MAX_REQUEST_RETRIES == 3

(***************************************************************************)
(* Strings are sequences of one-character strings.                         *)
(***************************************************************************)
DigitVal ==
  [c \in {"0", "1", "2", "3", "4", "5", "6", "7", "8", "9"} |->
     CASE c = "0" -> 0 [] c = "1" -> 1 [] c = "2" -> 2 [] c = "3" -> 3
       [] c = "4" -> 4 [] c = "5" -> 5 [] c = "6" -> 6 [] c = "7" -> 7
       [] c = "8" -> 8 [] c = "9" -> 9]

IsDigit(c) == c \in DOMAIN DigitVal

\* str::contains: pat occurs in s as a contiguous substring
Contains(s, pat) ==
  \E i \in 1..(Len(s) - Len(pat) + 1) : SubSeq(s, i, i + Len(pat) - 1) = pat

(***************************************************************************)
(* chrono: NaiveDateTime, ordered by (date, seconds of the day, fraction). *)
(***************************************************************************)
IsLeapYear(y) == (y % 4 = 0 /\ y % 100 # 0) \/ y % 400 = 0

DaysInMonth(y, m) ==
  IF m = 2 THEN (IF IsLeapYear(y) THEN 29 ELSE 28)
  ELSE IF m \in {4, 6, 9, 11} THEN 30 ELSE 31

\* the days of year y before its month m
DaysBeforeMonth(y, m) ==
  <<0, 31, 59, 90, 120, 151, 181, 212, 243, 273, 304, 334>>[m]
    + (IF m > 2 /\ IsLeapYear(y) THEN 1 ELSE 0)

\* the day number of y-m-d, counted from 0001-01-01 = 1
DaysFromCe(y, m, d) ==
  365 * (y - 1) + ((y - 1) \div 4) - ((y - 1) \div 100) + ((y - 1) \div 400)
    + DaysBeforeMonth(y, m) + d

NaiveDateTime(y, m, d, H, M, S) ==
  [date |-> DaysFromCe(y, m, d),
   secs |-> H * 3600 + M * 60 + (IF S = 60 THEN 59 ELSE S),
   frac |-> IF S = 60 THEN 1 ELSE 0]

\* a > b on NaiveDateTime
DateTimeGt(a, b) ==
  \/ a.date > b.date
  \/ a.date = b.date /\ a.secs > b.secs
  \/ a.date = b.date /\ a.secs = b.secs /\ a.frac > b.frac

\* dt - TimeDelta::try_days(days)
SubDays(dt, days) == [dt EXCEPT !.date = dt.date - days]

\* scan::number(s, 1, width) from position i: the number of digits taken
RECURSIVE ScanLen(_, _, _)
ScanLen(s, i, width) ==
  IF width = 0 \/ i > Len(s) \/ ~IsDigit(s[i]) THEN 0
  ELSE 1 + ScanLen(s, i + 1, width - 1)

RECURSIVE ToNumber(_, _, _)
ToNumber(s, i, n) ==
  IF n = 0 THEN 0
  ELSE 10 * ToNumber(s, i, n - 1) + DigitVal[s[i + n - 1]]

\* the widths of the numeric items of "%Y%m%d%H%M%S"
FormatWidths == <<4, 2, 2, 2, 2, 2>>

\* the numeric items k.. of the format scanned from position i on; the input
\* must end where the last item ends
RECURSIVE ScanFields(_, _, _)
ScanFields(s, i, k) ==
  IF k > Len(FormatWidths)
  THEN [ok |-> i > Len(s), fields |-> <<>>]
  ELSE LET n == ScanLen(s, i, FormatWidths[k]) IN
       IF n = 0 THEN [ok |-> FALSE, fields |-> <<>>]
       ELSE LET rest == ScanFields(s, i + n, k + 1) IN
            [ok |-> rest.ok, fields |-> <<ToNumber(s, i, n)>> \o rest.fields]

NoDateTime == [date |-> 0, secs |-> 0, frac |-> 0]

\* NaiveDateTime::parse_from_str(s, "%Y%m%d%H%M%S")
NaiveDateTimeParseFromStr(s) ==
  LET r == ScanFields(s, 1, 1)
      f == r.fields
  IN IF /\ r.ok
        /\ f[2] \in 1..12
        /\ f[3] \in 1..DaysInMonth(f[1], f[2])
        /\ f[4] \in 0..23
        /\ f[5] \in 0..59
        /\ f[6] \in 0..60
     THEN [ok |-> TRUE, value |-> NaiveDateTime(f[1], f[2], f[3], f[4], f[5], f[6])]
     ELSE [ok |-> FALSE, value |-> NoDateTime]

\* the wall clock when the client is constructed: 2023-03-29 05:45:28
StartTime == NaiveDateTime(2023, 3, 29, 5, 45, 28)

\* snapshot timestamps around StartTime - 30 days = 2023-02-27 05:45:28
TsEqual == <<"2", "0", "2", "3", "0", "2", "2", "7", "0", "5", "4", "5", "2", "8">>
TsNewer == <<"2", "0", "2", "3", "0", "2", "2", "7", "0", "5", "4", "5", "2", "9">>
TsYesterday == <<"2", "0", "2", "3", "0", "3", "2", "8", "0", "5", "4", "5", "2", "8">>
TsOlder == <<"2", "0", "2", "2", "1", "2", "3", "1", "2", "3", "5", "9", "5", "9">>
TsBadMonth == <<"2", "0", "2", "3", "1", "3", "2", "7", "0", "5", "4", "5", "2", "8">>
TsNotDigits == <<"2", "0", "2", "3", "-", "0", "2", "-", "2", "7">>
TimestampStrings == {TsEqual, TsNewer, TsYesterday, TsOlder, TsBadMonth, TsNotDigits}

\* the parse of each timestamp of the model, computed once
ParsedTimestamps == [ts \in TimestampStrings |-> NaiveDateTimeParseFromStr(ts)]

\* NaiveDateTime::parse_from_str(s, "%Y%m%d%H%M%S"), looked up where it was
\* computed before
ParseFromStr(s) ==
  IF s \in TimestampStrings THEN ParsedTimestamps[s]
  ELSE NaiveDateTimeParseFromStr(s)

(***************************************************************************)
(* URLs.  A URL string is a record of its scheme, host and path; the raw   *)
(* strings a caller passes may lack a scheme or a path.                    *)
(***************************************************************************)
NoHost == [kind |-> "none", name |-> <<>>, addr |-> <<>>]
Domain(name) == [kind |-> "domain", name |-> name, addr |-> <<>>]
Ipv4(a, b, c, d) == [kind |-> "ipv4", name |-> <<>>, addr |-> <<a, b, c, d>>]
Ipv6(segments) == [kind |-> "ipv6", name |-> <<>>, addr |-> segments]

UrlString(scheme, host, path) == [scheme |-> scheme, host |-> host, path |-> path]
NoString == UrlString("", NoHost, "")

SpecialSchemes == {"http", "https", "ws", "wss", "ftp", "file"}

AsciiUppercase == <<"A", "B", "C", "D", "E", "F", "G", "H", "I", "J", "K", "L", "M", "N", "O", "P", "Q", "R", "S", "T", "U", "V", "W", "X", "Y", "Z">>
AsciiLowercase == <<"a", "b", "c", "d", "e", "f", "g", "h", "i", "j", "k", "l", "m", "n", "o", "p", "q", "r", "s", "t", "u", "v", "w", "x", "y", "z">>

\* the lowercase letter of each uppercase letter
Lowercase ==
  [c \in {AsciiUppercase[k] : k \in 1..Len(AsciiUppercase)} |->
     AsciiLowercase[CHOOSE k \in 1..Len(AsciiUppercase) : AsciiUppercase[k] = c]]

\* str::to_ascii_lowercase
ToAsciiLowercase(s) ==
  [i \in 1..Len(s) |-> IF s[i] \in DOMAIN Lowercase THEN Lowercase[s[i]] ELSE s[i]]

\* the decimal digits of n
RECURSIVE ToDecimal(_)
ToDecimal(n) ==
  LET digit == <<"0", "1", "2", "3", "4", "5", "6", "7", "8", "9">>[(n % 10) + 1] IN
  IF n < 10 THEN <<digit>> ELSE Append(ToDecimal(n \div 10), digit)

\* an IPv4 address as it is written
Ipv4Text(a) ==
  ToDecimal(a[1]) \o <<".">> \o ToDecimal(a[2]) \o <<".">> \o ToDecimal(a[3])
    \o <<".">> \o ToDecimal(a[4])

\* the host of a parsed URL: a special scheme's domain is lowercased and its
\* dotted numbers are an IPv4 address; another scheme's host is opaque, a
\* domain as it is written unless it is a bracketed IPv6 address
HostParse(scheme, host) ==
  IF scheme \in SpecialSchemes
  THEN (IF host.kind = "domain" THEN Domain(ToAsciiLowercase(host.name)) ELSE host)
  ELSE (IF host.kind = "ipv4" THEN Domain(Ipv4Text(host.addr)) ELSE host)

\* Url::parse: fails on a string without a scheme and on a special scheme
\* other than file without a host; gives a special scheme's empty path as "/"
UrlParse(raw) ==
  IF \/ raw.scheme = ""
     \/ raw.scheme \in SpecialSchemes \ {"file"} /\ raw.host.kind = "none"
  THEN [ok |-> FALSE, url |-> NoString]
  ELSE [ok |-> TRUE,
        url |-> [scheme |-> raw.scheme,
                 host |-> HostParse(raw.scheme, raw.host),
                 path |-> IF raw.scheme \in SpecialSchemes /\ raw.path = ""
                          THEN "/" ELSE raw.path]]

localhost == <<"l", "o", "c", "a", "l", "h", "o", "s", "t">>

EXCLUDED_DOMAINS ==
  << <<"a", "r", "c", "h", "i", "v", "e", ".", "o", "r", "g">>,
     <<"j", "s", "t", "o", "r", ".", "o", "r", "g">>,
     <<"d", "i", "w", ".", "d", "e">>,
     <<"y", "o", "u", "t", "u", "b", "e", ".", "c", "o", "m">>,
     <<"p", "l", "a", "t", "o", ".", "s", "t", "a", "n", "f", "o", "r", "d", ".",
       "e", "d", "u">> >>

\* Ipv4Addr::is_loopback, is_private, is_multicast, is_unspecified
Ipv4IsLoopback(a) == a[1] = 127
Ipv4IsPrivate(a) ==
  a[1] = 10 \/ (a[1] = 172 /\ a[2] \in 16..31) \/ (a[1] = 192 /\ a[2] = 168)
Ipv4IsMulticast(a) == a[1] \in 224..239
Ipv4IsUnspecified(a) == a = <<0, 0, 0, 0>>
\* Ipv6Addr::is_loopback, is_multicast
Ipv6IsLoopback(a) == a = <<0, 0, 0, 0, 0, 0, 0, 1>>
Ipv6IsMulticast(a) == a[1] \div 256 = 255

\* the URL of a request or the final location of a response: an endpoint
\* prefix followed by a URL string; the prefix "" is the URL itself
Location(endpoint, url) == [endpoint |-> endpoint, url |-> url]
NoLocation == Location("", NoString)

NoResult ==
  [ok |-> FALSE, kind |-> "", url |-> NoString, detail |-> "", status |-> 0,
   location |-> NoLocation]
Err(kind, url, detail) ==
  [NoResult EXCEPT !.kind = kind, !.url = url, !.detail = detail]
\* Error::CannotArchive(status, url)
CannotArchive(status, url) ==
  [NoResult EXCEPT !.kind = "CannotArchive", !.status = status, !.url = url]
Ok(kind, url) == [NoResult EXCEPT !.ok = TRUE, !.kind = kind, !.url = url]
\* ArchiveResult::Archived(location)
Archived(location) ==
  [NoResult EXCEPT !.ok = TRUE, !.kind = "Archived", !.location = location]
\* ArchiveResult::RecentArchiveExists
RecentArchiveExists == [NoResult EXCEPT !.ok = TRUE, !.kind = "RecentArchiveExists"]

\* the checks of validate_url on an IP address, archivableurl.rs 47-57
IpRejected(host) ==
  \/ host.kind = "ipv4"
       /\ (\/ Ipv4IsLoopback(host.addr) \/ Ipv4IsPrivate(host.addr)
           \/ Ipv4IsMulticast(host.addr) \/ Ipv4IsUnspecified(host.addr))
  \/ host.kind = "ipv6" /\ (Ipv6IsLoopback(host.addr) \/ Ipv6IsMulticast(host.addr))

\* validate_url without the check of the scheme
validate_url_any_scheme(url) ==
  LET host == url.host IN
  IF host.kind = "none" THEN Err("InvalidUrl", url, "")
  ELSE IF host.kind = "domain" /\ Contains(host.name, localhost)
  THEN Err("InvalidUrl", url, "")
  ELSE IF host.kind = "domain"
          /\ \E i \in 1..Len(EXCLUDED_DOMAINS) : Contains(host.name, EXCLUDED_DOMAINS[i])
  THEN Err("ExcludedUrl", url, "")
  ELSE IF IpRejected(host) THEN Err("InvalidUrl", url, "")
  ELSE Ok("ArchivableUrl", url)

\* validate_url comparing the domain with the excluded ones for equality
validate_url_exact(url) ==
  LET host == url.host IN
  IF host.kind = "none" THEN Err("InvalidUrl", url, "")
  ELSE IF host.kind = "domain" /\ Contains(host.name, localhost)
  THEN Err("InvalidUrl", url, "")
  ELSE IF host.kind = "domain"
          /\ \E i \in 1..Len(EXCLUDED_DOMAINS) : host.name = EXCLUDED_DOMAINS[i]
  THEN Err("ExcludedUrl", url, "")
  ELSE IF IpRejected(host) THEN Err("InvalidUrl", url, "")
  ELSE IF url.scheme \notin {"http", "https"}
  THEN Err("InvalidUrl", url, "")
  ELSE Ok("ArchivableUrl", url)

\* validate_url looking for the excluded domains before "localhost"
validate_url_excluded_first(url) ==
  LET host == url.host IN
  IF host.kind = "none" THEN Err("InvalidUrl", url, "")
  ELSE IF host.kind = "domain"
          /\ \E i \in 1..Len(EXCLUDED_DOMAINS) : Contains(host.name, EXCLUDED_DOMAINS[i])
  THEN Err("ExcludedUrl", url, "")
  ELSE IF host.kind = "domain" /\ Contains(host.name, localhost)
  THEN Err("InvalidUrl", url, "")
  ELSE IF IpRejected(host) THEN Err("InvalidUrl", url, "")
  ELSE IF url.scheme \notin {"http", "https"}
  THEN Err("InvalidUrl", url, "")
  ELSE Ok("ArchivableUrl", url)

\* ArchivableUrl::validate_url
validate_url(url) ==
  LET host == url.host IN
  IF host.kind = "none" THEN Err("InvalidUrl", url, "")
  ELSE IF host.kind = "domain" /\ Contains(host.name, localhost)
  THEN Err("InvalidUrl", url, "")
  ELSE IF host.kind = "domain"
          /\ \E i \in 1..Len(EXCLUDED_DOMAINS) : Contains(host.name, EXCLUDED_DOMAINS[i])
  THEN Err("ExcludedUrl", url, "")
  ELSE IF host.kind = "ipv4"
          /\ (\/ Ipv4IsLoopback(host.addr) \/ Ipv4IsPrivate(host.addr)
              \/ Ipv4IsMulticast(host.addr) \/ Ipv4IsUnspecified(host.addr))
  THEN Err("InvalidUrl", url, "")
  ELSE IF host.kind = "ipv6" /\ (Ipv6IsLoopback(host.addr) \/ Ipv6IsMulticast(host.addr))
  THEN Err("InvalidUrl", url, "")
  ELSE IF url.scheme \notin {"http", "https"}
  THEN Err("InvalidUrl", url, "")
  ELSE Ok("ArchivableUrl", url)

\* ArchivableUrl::parse
ArchivableUrlParse(raw) ==
  LET parsed == UrlParse(raw) IN
  IF ~parsed.ok THEN Err("InvalidUrl", raw, "") ELSE validate_url(parsed.url)

(***************************************************************************)
(* ClientConfig.                                                          *)
(***************************************************************************)
\* ClientConfig::new, with Utc::now() = utc_now
ClientConfigNew(max_request_retries, archive_threshold_days, utc_now) ==
  [max_request_retries |-> max_request_retries,
   archive_threshold_timestamp |-> SubDays(utc_now, archive_threshold_days)]

\* ClientConfigDefault with the retry ceiling the tests configure
ClientConfigDefaultFewer(utc_now) ==
  ClientConfigNew(MAX_REQUEST_RETRIES, DEFAULT_ARCHIVE_THRESHOLD_DAYS, utc_now)

\* ClientConfig::default
ClientConfigDefault(utc_now) ==
  [max_request_retries |-> DEFAULT_MAX_REQUEST_RETRIES,
   archive_threshold_timestamp |-> SubDays(utc_now, DEFAULT_ARCHIVE_THRESHOLD_DAYS)]

(***************************************************************************)
(* State.                                                                  *)
(***************************************************************************)
VARIABLES
  now,            \* the wall clock, a NaiveDateTime
  client_config,  \* WaybackMachineClient.client_config
  call,           \* per task: the archive_url call it is in, or made last
  prev,           \* per task: what the call before that came to
  ncalls,         \* per task: the calls it has made
  world,          \* the callers' inputs and what the remote side may answer
  request,        \* one request sent through http_client, taken alone
  parse_input,    \* the string given to ArchivableUrl::parse, taken alone
  parse_output,   \* what ArchivableUrl::parse returned for parse_input
  batch           \* the loop of main over the links of a document, taken alone

vars == <<now, client_config, call, prev, ncalls, world, request, parse_input, parse_output, batch>>

Tasks == DOMAIN call

\* no document is being processed
NoBatch == [pc |-> "none", links |-> {}, exit_code |-> 0, log |-> {}]

(***************************************************************************)
(* The remote side: what one HTTP attempt can come back with.              *)
(***************************************************************************)
\* a JSON array of rows of strings
Rows(rows) == [json |-> "rows", rows |-> rows]
\* the legacy object shape ({"url": ..., "archived_snapshots": ...})
ObjectBody == [json |-> "object", rows |-> <<>>]
\* a body that is not JSON
InvalidBody == [json |-> "invalid", rows |-> <<>>]

Response(status, location, body) ==
  [kind |-> "response", error |-> "", status |-> status, location |-> location,
   body |-> body]
\* a request that ended without a response: "connect" (connection-level) or
\* "redirect" (a redirect loop)
TransportError(error) ==
  [kind |-> "error", error |-> error, status |-> 0, location |-> NoLocation,
   body |-> InvalidBody]
NoResponse == TransportError("")

Statuses == {200, 404, 520}
TransportErrors == {"connect", "redirect"}

Outcomes(locations, bodies) ==
  {TransportError(e) : e \in world.errors}
    \cup {Response(st, l, b) : st \in world.statuses, l \in locations, b \in bodies}

\* Retryable taking connection-level errors only as transient
RetryableErrorsOnly(o) == o.kind = "error" /\ o.error \in {"connect", "timeout"}

\* reqwest_retry's default classification: a connection-level error (a
\* failed connect, a timeout), a 5xx, a 408 or a 429 response is transient
Retryable(o) ==
  \/ o.kind = "error" /\ o.error \in {"connect", "timeout"}
  \/ o.kind = "response" /\ (o.status \in 500..599 \/ o.status \in {408, 429})

\* StatusCode::is_success
IsSuccess(status) == status \in 200..299

\* a request sent through http_client: the retries the middleware has used
\* on it, the outcome of each attempt so far, and what send() returned
NoRequest ==
  [pc |-> "idle", n_past_retries |-> 0, attempts |-> <<>>, returned |-> NoResponse]

(***************************************************************************)
(* WaybackMachineClient.  A call's record holds the locals of archive_url  *)
(* (url, to_archive, to_check, response), its position pc, the retries the *)
(* transport has used on the request in flight, and a history of the call: *)
(* the requests it issued, the attempts that reached the submission        *)
(* endpoint and whether each of them was answered 520, whether the resolve *)
(* GET failed and the final location of its response, the results of its   *)
(* existence checks and the last check's argument, cutoff, response body   *)
(* and result.                                                             *)
(***************************************************************************)
NoCheck ==
  [arg |-> NoString, sent |-> FALSE, cutoff |-> NoDateTime, body |-> InvalidBody,
   result |-> NoResult]

NoCall ==
  [pc |-> "idle", url |-> NoString, to_archive |-> NoString, to_check |-> NoString,
   response |-> NoResponse, result |-> NoResult, n_past_retries |-> 0,
   sent |-> <<>>, submit_requests |-> 0, submit_only_520 |-> TRUE,
   resolve_failed |-> FALSE, resolved |-> NoLocation,
   check_results |-> <<>>, last_check |-> NoCheck]

\* MatchRows comparing with >= instead of >
MatchRowsGe(rows, url, cutoff) ==
  IF Len(rows) = 2 /\ Len(rows[2]) = 1
  THEN LET snapshot_timestamp == ParseFromStr(rows[2][1]) IN
       IF ~snapshot_timestamp.ok THEN Err("CannotCheckArchive", NoString, "parse")
       ELSE IF ~DateTimeGt(cutoff, snapshot_timestamp.value)
       THEN Ok("Ok", NoString)
       ELSE Err("NoRecentArchive", url, "")
  ELSE Err("NoRecentArchive", url, "")

\* MatchRows taking the newest of the one-field rows after the first
MatchRowsNewest(rows, url, cutoff) ==
  IF \E i \in 2..Len(rows) :
       /\ Len(rows[i]) = 1
       /\ ParseFromStr(rows[i][1]).ok
       /\ DateTimeGt(ParseFromStr(rows[i][1]).value, cutoff)
  THEN Ok("Ok", NoString)
  ELSE IF Len(rows) = 2 /\ Len(rows[2]) = 1 /\ ~ParseFromStr(rows[2][1]).ok
  THEN Err("CannotCheckArchive", NoString, "parse")
  ELSE Err("NoRecentArchive", url, "")

\* the match on the decoded rows, lib.rs 133-144
MatchRows(rows, url, cutoff) ==
  IF Len(rows) = 2 /\ Len(rows[2]) = 1
  THEN LET snapshot_timestamp == ParseFromStr(rows[2][1]) IN
       IF ~snapshot_timestamp.ok THEN Err("CannotCheckArchive", NoString, "parse")
       ELSE IF DateTimeGt(snapshot_timestamp.value, cutoff)
       THEN Ok("Ok", NoString)
       ELSE Err("NoRecentArchive", url, "")
  ELSE Err("NoRecentArchive", url, "")

\* check_recent_archive_exists from the end of its request on, lib.rs 128-144
CheckOutcome(o, url, cutoff) ==
  IF o.kind = "error" THEN Err("CannotCheckArchive", NoString, o.error)
  ELSE IF o.body.json # "rows" THEN Err("CannotCheckArchive", NoString, "json")
  ELSE MatchRows(o.body.rows, url, cutoff)

Return(c, r) == [c EXCEPT !.pc = "returned", !.result = r]

\* http_client.get(endpoint + url).send()
Send(c, stage, endpoint, url) ==
  [c EXCEPT !.pc = stage, !.n_past_retries = 0,
            !.sent = Append(@, Location(endpoint, url))]

\* Submit taking the URL from a slot of the client that every call writes at
\* its start: the URL of a call that is under way, not always of this one
SubmitShared(c) ==
  Send(c, "submit", "archive",
       call[CHOOSE t \in Tasks : call[t].pc \notin {"idle", "returned"}].to_archive)

\* Submit sending the resolved URL
SubmitResolved(c) == Send(c, "submit", "archive", c.to_check)

\* archive_url: the submission request, lib.rs 195-202
Submit(c) == Send(c, "submit", "archive", c.to_archive)

\* AfterCheck without the early return
AfterCheckNoReturn(c, r) == Submit(c)

\* AfterCheck propagating the check's error (a `?` on the check)
AfterCheckPropagates(c, r) ==
  IF r.ok THEN Return(c, RecentArchiveExists) ELSE Return(c, r)

\* archive_url after the first existence check, lib.rs 187-202
AfterCheck(c, r) == IF r.ok THEN Return(c, RecentArchiveExists) ELSE Submit(c)

\* AfterGuard sending the submission again when the check fails
AfterGuardResubmits(c, r) ==
  IF ~r.ok THEN Submit(c) ELSE Return(c, Archived(c.response.location))

\* archive_url after the check that follows a failed submission, lib.rs 205-212
AfterGuard(c, r) ==
  IF ~r.ok THEN Return(c, CannotArchive(c.response.status, c.url))
  ELSE Return(c, Archived(c.response.location))

\* the end of one check_recent_archive_exists call made in `stage`
CheckReturns(c, stage, check) ==
  LET c1 == [c EXCEPT !.check_results = Append(@, check.result.kind),
                      !.last_check = check]
  IN IF stage = "check" THEN AfterCheck(c1, check.result)
     ELSE AfterGuard(c1, check.result)

\* check_recent_archive_exists up to its request, lib.rs 121-127
CheckBegins(c, stage, url) ==
  LET to_check == ArchivableUrlParse(url) IN
  IF ~to_check.ok
  THEN CheckReturns(c, stage, [NoCheck EXCEPT !.arg = url, !.result = to_check])
  ELSE Send([c EXCEPT !.last_check = [NoCheck EXCEPT !.arg = url]],
            stage, "check", to_check.url)

\* ArchiveUrlBegins with Url::parse in place of ArchivableUrl::parse
ArchiveUrlBeginsUnvalidated(url) ==
  LET parsed == UrlParse(url)
      c == [NoCall EXCEPT !.url = url]
  IN IF ~parsed.ok THEN Return(c, Err("InvalidUrl", url, ""))
     ELSE Send([c EXCEPT !.to_archive = parsed.url], "resolve", "", parsed.url)

\* archive_url up to the resolve request, lib.rs 172-180
ArchiveUrlBegins(url) ==
  LET to_archive == ArchivableUrlParse(url)
      c == [NoCall EXCEPT !.url = url]
  IN IF ~to_archive.ok THEN Return(c, to_archive)
     ELSE Send([c EXCEPT !.to_archive = to_archive.url], "resolve", "", to_archive.url)

\* AfterResolve propagating the resolve request's error (a `?` on the send)
AfterResolvePropagates(c, o) ==
  LET c1 == [c EXCEPT !.resolve_failed = (o.kind = "error"),
                      !.resolved = o.location] IN
  IF o.kind = "error" THEN Return(c1, Err("RequestFailed", NoString, o.error))
  ELSE LET resolved == ArchivableUrlParse(o.location.url) IN
       IF ~resolved.ok THEN Return(c1, resolved)
       ELSE CheckBegins([c1 EXCEPT !.to_check = resolved.url], "check", resolved.url)

\* AfterResolve taking the response's location as it is, without validating it
AfterResolveUnvalidated(c, o) ==
  LET to_check == IF o.kind = "error" THEN c.to_archive ELSE o.location.url
      c1 == [c EXCEPT !.resolve_failed = (o.kind = "error"),
                      !.resolved = o.location]
  IN CheckBegins([c1 EXCEPT !.to_check = to_check], "check", to_check)

\* archive_url from the end of the resolve request to the check, lib.rs 181-188
AfterResolve(c, o) ==
  LET resolved == IF o.kind = "error" THEN Ok("ArchivableUrl", c.to_archive)
                  ELSE ArchivableUrlParse(o.location.url)
      c1 == [c EXCEPT !.resolve_failed = (o.kind = "error"),
                      !.resolved = o.location]
  IN IF ~resolved.ok THEN Return(c1, resolved)
     ELSE CheckBegins([c1 EXCEPT !.to_check = resolved.url], "check", resolved.url)

\* AfterSubmit running the guard's check on the resolved URL
AfterSubmitGuardResolved(c, o) ==
  IF o.kind = "error" THEN Return(c, Err("RequestFailed", NoString, o.error))
  ELSE LET c1 == [c EXCEPT !.response = o] IN
       IF ~IsSuccess(o.status) THEN CheckBegins(c1, "guard", c.to_check)
       ELSE Return(c1, Archived(o.location))

\* AfterSubmit with the status test inverted
AfterSubmitInverted(c, o) ==
  IF o.kind = "error" THEN Return(c, Err("RequestFailed", NoString, o.error))
  ELSE LET c1 == [c EXCEPT !.response = o] IN
       IF IsSuccess(o.status) THEN CheckBegins(c1, "guard", c.url)
       ELSE Return(c1, Archived(o.location))

\* AfterSubmit running the check on a transport error too
AfterSubmitGuardOnError(c, o) ==
  LET c1 == [c EXCEPT !.response = o] IN
  IF o.kind = "error" \/ ~IsSuccess(o.status) THEN CheckBegins(c1, "guard", c.url)
  ELSE Return(c1, Archived(o.location))

\* archive_url from the end of the submission request on, lib.rs 202-212
AfterSubmit(c, o) ==
  IF o.kind = "error" THEN Return(c, Err("RequestFailed", NoString, o.error))
  ELSE LET c1 == [c EXCEPT !.response = o] IN
       IF ~IsSuccess(o.status) THEN CheckBegins(c1, "guard", c.url)
       ELSE Return(c1, Archived(o.location))

(***************************************************************************)
(* The inputs of the model.                                                *)
(***************************************************************************)
example_com == <<"e", "x", "a", "m", "p", "l", "e", ".", "c", "o", "m">>
www_example_com == <<"w", "w", "w", ".", "e", "x", "a", "m", "p", "l", "e", ".", "c", "o", "m">>
archive_org == <<"a", "r", "c", "h", "i", "v", "e", ".", "o", "r", "g">>

\* "https://example.com", "http://localhost/page", "example.com",
\* "https://archive.org/some-book"
InputUrls ==
  {UrlString("https", Domain(example_com), ""),
   UrlString("http", Domain(localhost), "/page"),
   UrlString("", NoHost, "example.com"),
   UrlString("https", Domain(archive_org), "/some-book")}

\* where a redirect may lead: "https://www.example.com/",
\* "https://archive.org/some-book", "http://localhost/page"
Redirects ==
  {UrlString("https", Domain(www_example_com), "/"),
   UrlString("https", Domain(archive_org), "/some-book"),
   UrlString("http", Domain(localhost), "/page")}

\* where the GET of `url` may end: at url itself or where a redirect leads
ResolveLocations(url) ==
  {Location("", url)} \cup {Location("", r) : r \in world.redirects}

\* where the GET of archive_endpoint + url may end: at the request's own URL
\* or at the snapshot the service redirects to
SubmitLocations(url) == {Location("archive", url), Location("web", url)}

Header == <<<<"t", "i", "m", "e", "s", "t", "a", "m", "p">>>>

CheckRows ==
  {<<>>, <<Header>>, <<Header, <<>>>>, << <<TsNewer>> >>,
   <<Header, <<TsNewer, TsNewer>>>>, <<Header, <<TsOlder, TsYesterday>>>>,
   <<Header, <<TsOlder>>, <<TsNewer>>>>, <<Header, <<TsYesterday>>, <<TsYesterday>>>>,
   << <<TsOlder>>, <<TsNewer>> >>}
    \cup {<<Header, <<ts>>>> : ts \in TimestampStrings}

CheckBodies == {InvalidBody, ObjectBody} \cup {Rows(r) : r \in CheckRows}

\* the tasks that call archive_url: the loop of main
Callers == {"main"}

\* the inputs and the remote side of the sequential program
SequentialWorld ==
  [calls |-> MaxCalls, urls |-> InputUrls, redirects |-> Redirects,
   statuses |-> Statuses, errors |-> TransportErrors, bodies |-> CheckBodies]

(***************************************************************************)
(* The initial state.                                                      *)
(***************************************************************************)

NoPrev ==
  [made |-> FALSE, url |-> NoString, result |-> "", submitted |-> FALSE,
   checked |-> <<>>]

Init ==
  /\ now = StartTime
  /\ client_config =
       ClientConfigNew(MAX_REQUEST_RETRIES, DEFAULT_ARCHIVE_THRESHOLD_DAYS, now)
  /\ call = [t \in Callers |-> NoCall]
  /\ prev = [t \in Callers |-> NoPrev]
  /\ ncalls = [t \in Callers |-> 0]
  /\ world = SequentialWorld
  /\ request = NoRequest
  /\ parse_input = NoString
  /\ parse_output = NoResult
  /\ batch = NoBatch

\* CheckCutoff computed anew from the wall clock at each check
CutoffPerCheck == SubDays(now, DEFAULT_ARCHIVE_THRESHOLD_DAYS)

\* the cutoff an existence check compares with, lib.rs 137
CheckCutoff == client_config.archive_threshold_timestamp

\* the single timestamp a check response holds, when it holds exactly one
\* that is newer than the cutoff; <<>> otherwise
RecentTimestamp(check, cutoff) ==
  IF /\ check.sent
     /\ check.body.json = "rows"
     /\ Len(check.body.rows) = 2
     /\ Len(check.body.rows[2]) = 1
  THEN LET parsed == ParseFromStr(check.body.rows[2][1]) IN
       IF parsed.ok /\ DateTimeGt(parsed.value, cutoff)
       THEN check.body.rows[2][1] ELSE <<>>
  ELSE <<>>

\* what is kept of a call once the next one starts
Summary(c) ==
  [made |-> c.pc = "returned", url |-> c.url, result |-> c.result.kind,
   submitted |-> c.submit_requests > 0 \/ \E i \in 1..Len(c.sent) : c.sent[i].endpoint = "archive",
   checked |-> IF Len(c.check_results) = 1
               THEN RecentTimestamp(c.last_check, client_config.archive_threshold_timestamp)
               ELSE <<>>]

(***************************************************************************)
(* Actions.                                                                *)
(***************************************************************************)
\* the wall clock advances by a day
Tick ==
  /\ now.date - StartTime.date < MaxTicks
  /\ now' = [now EXCEPT !.date = @ + 1]
  /\ UNCHANGED <<client_config, call, prev, ncalls, world, request, parse_input, parse_output, batch>>

\* task t calls archive_url(url)
Call(t) ==
  /\ call[t].pc \in {"idle", "returned"}
  /\ ncalls[t] < world.calls
  /\ \E url \in world.urls : call' = [call EXCEPT ![t] = ArchiveUrlBegins(url)]
  /\ prev' = [prev EXCEPT ![t] = Summary(call[t])]
  /\ ncalls' = [ncalls EXCEPT ![t] = @ + 1]
  /\ UNCHANGED <<now, client_config, world, request, parse_input, parse_output, batch>>

\* Final without the ceiling on the retries
FinalIgnoresCeiling(c, o) == ~Retryable(o)

\* the outcomes the transport hands back to the caller: a permanent one, or
\* any one once the retries are used up
Final(c, o) == ~Retryable(o) \/ c.n_past_retries >= client_config.max_request_retries

\* an attempt of the request in flight ends with a transient outcome and the
\* transport sends the request again
Retry(t) ==
  /\ call[t].pc \in {"resolve", "check", "submit", "guard"}
  /\ \E o \in Outcomes({NoLocation}, {InvalidBody}) :
       /\ ~Final(call[t], o)
       /\ call' = [call EXCEPT
            ![t].n_past_retries = @ + 1,
            ![t].submit_requests = IF call[t].pc = "submit" THEN @ + 1 ELSE @,
            ![t].submit_only_520 =
               IF call[t].pc = "submit" THEN @ /\ o.status = 520 ELSE @]
  /\ UNCHANGED <<now, client_config, prev, ncalls, world, request, parse_input, parse_output, batch>>

\* the resolve request of task t's call ends
Resolve(t) ==
  /\ call[t].pc = "resolve"
  /\ \E o \in Outcomes(ResolveLocations(call[t].to_archive), {InvalidBody}) :
       /\ Final(call[t], o)
       /\ call' = [call EXCEPT ![t] = AfterResolve(call[t], o)]
  /\ UNCHANGED <<now, client_config, prev, ncalls, world, request, parse_input, parse_output, batch>>

\* a check request of task t's call ends
Check(t) ==
  /\ call[t].pc \in {"check", "guard"}
  /\ \E o \in Outcomes({NoLocation}, world.bodies) :
       /\ Final(call[t], o)
       /\ call' = [call EXCEPT ![t] =
            CheckReturns(call[t], call[t].pc,
              [arg |-> call[t].last_check.arg, sent |-> TRUE,
               cutoff |-> CheckCutoff, body |-> o.body,
               result |-> CheckOutcome(o, call[t].last_check.arg,
                                       CheckCutoff)])]
  /\ UNCHANGED <<now, client_config, prev, ncalls, world, request, parse_input, parse_output, batch>>

\* the submission request of task t's call ends
SubmitDone(t) ==
  /\ call[t].pc = "submit"
  /\ \E o \in Outcomes(SubmitLocations(call[t].to_archive), {InvalidBody}) :
       /\ Final(call[t], o)
       /\ call' = [call EXCEPT ![t] =
            AfterSubmit([call[t] EXCEPT !.submit_requests = @ + 1,
                                        !.submit_only_520 = @ /\ o.status = 520],
                        o)]
  /\ UNCHANGED <<now, client_config, prev, ncalls, world, request, parse_input, parse_output, batch>>

Next ==
  \/ Tick
  \/ \E t \in Tasks : Call(t)
  \/ \E t \in Tasks : Retry(t)
  \/ \E t \in Tasks : Resolve(t)
  \/ \E t \in Tasks : Check(t)
  \/ \E t \in Tasks : SubmitDone(t)

Spec == Init /\ [][Next]_vars

(***************************************************************************)
(* The sequential program with each HTTP attempt completing: an attempt    *)
(* that is under way eventually ends, with a response or an error, since   *)
(* the reqwest client waits for each attempt and for nothing else.         *)
(***************************************************************************)
\* the attempt in flight of task t's call ends
AttemptEnds(t) == Retry(t) \/ Resolve(t) \/ Check(t) \/ SubmitDone(t)

\* the sequential program's inputs and remote side, the check answered with
\* a body that is not JSON or with one snapshot newer or older than the cutoff
FairWorld ==
  [SequentialWorld EXCEPT
     !.bodies = {InvalidBody, Rows(<<Header, <<TsNewer>>>>),
                 Rows(<<Header, <<TsOlder>>>>)}]

InitFair ==
  /\ now = StartTime
  /\ client_config =
       ClientConfigNew(MAX_REQUEST_RETRIES, DEFAULT_ARCHIVE_THRESHOLD_DAYS, now)
  /\ call = [t \in Callers |-> NoCall]
  /\ prev = [t \in Callers |-> NoPrev]
  /\ ncalls = [t \in Callers |-> 0]
  /\ world = FairWorld
  /\ request = NoRequest
  /\ parse_input = NoString
  /\ parse_output = NoResult
  /\ batch = NoBatch

FairSpec ==
  InitFair /\ [][Next]_vars /\ \A t \in Callers : WF_vars(AttemptEnds(t))

(***************************************************************************)
(* Concurrent callers: tasks that share one client by reference and each   *)
(* call archive_url, their calls suspended at each request and resumed in  *)
(* any order.                                                              *)
(***************************************************************************)
\* the retry ceiling the shared client is configured with
ConcurrentRetries == 1

\* one task per URL: each task makes one archive_url call
ConcurrentCallers == {"task1", "task2"}

\* "https://example.com" and "https://www.example.com/", the second also
\* where a redirect leads; a remote side that answers every attempt, with
\* 200, 404 or 520 and with one snapshot newer or older than the cutoff
ConcurrentWorld ==
  [calls |-> 1,
   urls |-> {UrlString("https", Domain(example_com), ""),
             UrlString("https", Domain(www_example_com), "/")},
   redirects |-> {UrlString("https", Domain(www_example_com), "/")},
   statuses |-> {200, 404, 520},
   errors |-> {},
   bodies |-> {Rows(<<Header, <<TsNewer>>>>), Rows(<<Header, <<TsOlder>>>>)}]

InitConcurrent ==
  /\ now = StartTime
  /\ client_config =
       ClientConfigNew(ConcurrentRetries, DEFAULT_ARCHIVE_THRESHOLD_DAYS, now)
  /\ call = [t \in ConcurrentCallers |-> NoCall]
  /\ prev = [t \in ConcurrentCallers |-> NoPrev]
  /\ ncalls = [t \in ConcurrentCallers |-> 0]
  /\ world = ConcurrentWorld
  /\ request = NoRequest
  /\ parse_input = NoString
  /\ parse_output = NoResult
  /\ batch = NoBatch

SpecConcurrent == InitConcurrent /\ [][Next]_vars

(***************************************************************************)
(* The transport alone: one request sent through http_client, the reqwest  *)
(* client wrapped in RetryTransientMiddleware, against a remote side that  *)
(* answers each attempt with any status or error.                          *)
(***************************************************************************)
TransportStatuses == {200, 400, 404, 408, 429, 500, 520}

TransportWorld ==
  [calls |-> 0, urls |-> {}, redirects |-> {}, statuses |-> TransportStatuses,
   errors |-> {"connect", "timeout", "redirect"}, bodies |-> {InvalidBody}]

InitTransport ==
  /\ now = StartTime
  /\ client_config =
       ClientConfigNew(MAX_REQUEST_RETRIES, DEFAULT_ARCHIVE_THRESHOLD_DAYS, now)
  /\ call = [t \in {} |-> NoCall]
  /\ prev = [t \in {} |-> NoPrev]
  /\ ncalls = [t \in {} |-> 0]
  /\ world = TransportWorld
  /\ request = NoRequest
  /\ parse_input = NoString
  /\ parse_output = NoResult
  /\ batch = NoBatch

\* http_client.get(..).send(): the first attempt goes out
RequestSend ==
  /\ request.pc = "idle"
  /\ request' = [request EXCEPT !.pc = "sent"]
  /\ UNCHANGED <<now, client_config, call, prev, ncalls, world, parse_input, parse_output, batch>>

\* an attempt ends with an outcome the middleware does not hand back: it
\* sends the request again
RequestRetry ==
  /\ request.pc = "sent"
  /\ \E o \in Outcomes({NoLocation}, {InvalidBody}) :
       /\ ~Final(request, o)
       /\ request' = [request EXCEPT !.n_past_retries = @ + 1,
                                     !.attempts = Append(@, o)]
  /\ UNCHANGED <<now, client_config, call, prev, ncalls, world, parse_input, parse_output, batch>>

\* an attempt ends with an outcome the middleware hands back: send() returns
RequestReturn ==
  /\ request.pc = "sent"
  /\ \E o \in Outcomes({NoLocation}, {InvalidBody}) :
       /\ Final(request, o)
       /\ request' = [request EXCEPT !.pc = "returned",
                                     !.attempts = Append(@, o),
                                     !.returned = o]
  /\ UNCHANGED <<now, client_config, call, prev, ncalls, world, parse_input, parse_output, batch>>

NextTransport == RequestSend \/ RequestRetry \/ RequestReturn

SpecTransport == InitTransport /\ [][NextTransport]_vars

(***************************************************************************)
(* The validator alone: ArchivableUrl::parse applied to one string.        *)
(***************************************************************************)
\* example.com, localhost, localhost.localdomain, notlocalhost.com, LOCALHOST
\* archive.org, web.archive.org, Archive.org, myjstor.org.example.com, jstor.org
\* diw.de, youtube.com, plato.stanford.edu, localhost.archive.org
ValidatorDomains ==
  {Domain(<<"e", "x", "a", "m", "p", "l", "e", ".", "c", "o", "m">>),
   Domain(<<"l", "o", "c", "a", "l", "h", "o", "s", "t">>),
   Domain(<<"l", "o", "c", "a", "l", "h", "o", "s", "t", ".", "l", "o", "c", "a", "l", "d", "o", "m", "a", "i", "n">>),
   Domain(<<"n", "o", "t", "l", "o", "c", "a", "l", "h", "o", "s", "t", ".", "c", "o", "m">>),
   Domain(<<"L", "O", "C", "A", "L", "H", "O", "S", "T">>),
   Domain(<<"a", "r", "c", "h", "i", "v", "e", ".", "o", "r", "g">>),
   Domain(<<"w", "e", "b", ".", "a", "r", "c", "h", "i", "v", "e", ".", "o", "r", "g">>),
   Domain(<<"A", "r", "c", "h", "i", "v", "e", ".", "o", "r", "g">>),
   Domain(<<"m", "y", "j", "s", "t", "o", "r", ".", "o", "r", "g", ".", "e", "x", "a", "m", "p", "l", "e", ".", "c", "o", "m">>),
   Domain(<<"j", "s", "t", "o", "r", ".", "o", "r", "g">>),
   Domain(<<"d", "i", "w", ".", "d", "e">>),
   Domain(<<"y", "o", "u", "t", "u", "b", "e", ".", "c", "o", "m">>),
   Domain(<<"p", "l", "a", "t", "o", ".", "s", "t", "a", "n", "f", "o", "r", "d", ".", "e", "d", "u">>),
   Domain(<<"l", "o", "c", "a", "l", "h", "o", "s", "t", ".", "a", "r", "c", "h", "i", "v", "e", ".", "o", "r", "g">>)}

\* 127.0.0.1, 10.0.0.1, 172.16.0.1, 172.32.0.1, 192.168.1.1, 224.0.0.1,
\* 0.0.0.0, 8.8.8.8, 93.184.216.34
ValidatorIpv4 ==
  {Ipv4(127, 0, 0, 1), Ipv4(10, 0, 0, 1), Ipv4(172, 16, 0, 1), Ipv4(172, 32, 0, 1),
   Ipv4(192, 168, 1, 1), Ipv4(224, 0, 0, 1), Ipv4(0, 0, 0, 0), Ipv4(8, 8, 8, 8),
   Ipv4(93, 184, 216, 34)}

\* ::1, ff02::1, ::, fc00::1, fe80::1, 2001:db8::1, ::ffff:127.0.0.1
ValidatorIpv6 ==
  {Ipv6(<<0, 0, 0, 0, 0, 0, 0, 1>>), Ipv6(<<65282, 0, 0, 0, 0, 0, 0, 1>>),
   Ipv6(<<0, 0, 0, 0, 0, 0, 0, 0>>), Ipv6(<<64512, 0, 0, 0, 0, 0, 0, 1>>),
   Ipv6(<<65152, 0, 0, 0, 0, 0, 0, 1>>), Ipv6(<<8193, 3512, 0, 0, 0, 0, 0, 1>>),
   Ipv6(<<0, 0, 0, 0, 0, 65535, 32512, 1>>)}

ValidatorSchemes == {"http", "https", "ftp", "ws", "file", "mailto"}

\* the strings given to ArchivableUrl::parse: "scheme://host/path" and
\* "scheme:path" for each scheme, and strings without a scheme
ValidatorInputs ==
  {UrlString(scheme, host, path) :
     scheme \in ValidatorSchemes,
     host \in {NoHost} \cup ValidatorDomains \cup ValidatorIpv4 \cup ValidatorIpv6,
     path \in {"", "/page"}}
    \cup {UrlString("", NoHost, path) : path \in {"invalid-url", "example.com"}}

ValidatorWorld ==
  [calls |-> 0, urls |-> ValidatorInputs, redirects |-> {}, statuses |-> {},
   errors |-> {}, bodies |-> {}]

InitValidator ==
  /\ now = StartTime
  /\ client_config =
       ClientConfigNew(MAX_REQUEST_RETRIES, DEFAULT_ARCHIVE_THRESHOLD_DAYS, now)
  /\ call = [t \in {} |-> NoCall]
  /\ prev = [t \in {} |-> NoPrev]
  /\ ncalls = [t \in {} |-> 0]
  /\ world = ValidatorWorld
  /\ request = NoRequest
  /\ parse_input \in world.urls
  /\ parse_output = NoResult
  /\ batch = NoBatch

\* ArchivableUrl::parse(parse_input)
Parse ==
  /\ parse_output = NoResult
  /\ parse_output' = ArchivableUrlParse(parse_input)
  /\ UNCHANGED <<now, client_config, call, prev, ncalls, world, request, parse_input, batch>>

NextValidator == Parse

SpecValidator == InitValidator /\ [][NextValidator]_vars

(***************************************************************************)
(* The batch caller alone: main, which builds one client from the default  *)
(* configuration and calls archive_url for each link of a document in      *)
(* turn, then exits with the exit code the loop left.                      *)
(***************************************************************************)
\* "https://example.com", "https://www.example.com/", "http://localhost/page",
\* "example.com", "https://archive.org/some-book"
MainLinks ==
  {UrlString("https", Domain(example_com), ""),
   UrlString("https", Domain(www_example_com), "/"),
   UrlString("http", Domain(localhost), "/page"),
   UrlString("", NoHost, "example.com"),
   UrlString("https", Domain(archive_org), "/some-book")}

\* the links of the document and the --exclude patterns of the command line
\* (here the one literal "www.example.com"); a remote side that may redirect
\* to "https://archive.org/some-book", answers 200 or 520 or fails to connect,
\* and reports one snapshot newer or older than the cutoff
MainWorld ==
  [calls |-> 0, urls |-> MainLinks,
   exclude |-> {www_example_com},
   redirects |-> {UrlString("https", Domain(archive_org), "/some-book")},
   statuses |-> {200, 520},
   errors |-> {"connect"},
   bodies |-> {Rows(<<Header, <<TsNewer>>>>), Rows(<<Header, <<TsOlder>>>>)}]

\* regex.is_match(&url) for a pattern that is a literal: the pattern occurs
\* in the URL, here in its host name
IsMatch(pattern, url) == url.host.kind = "domain" /\ Contains(url.host.name, pattern)

\* one line of the log
LogLine(level, text, link, result) ==
  [level |-> level, text |-> text, link |-> link, result |-> result]

InitMain ==
  /\ now = StartTime
  /\ client_config = ClientConfigDefault(now)
  /\ call = [t \in Callers |-> NoCall]
  /\ prev = [t \in Callers |-> NoPrev]
  /\ ncalls = [t \in Callers |-> 0]
  /\ world = MainWorld
  /\ request = NoRequest
  /\ parse_input = NoString
  /\ parse_output = NoResult
  /\ batch = [pc |-> "loop", links |-> world.urls, exit_code |-> 0, log |-> {}]

\* MatchResult with InvalidUrl skipped as ExcludedUrl is
MatchResultSkipsInvalid(b, link, r) ==
  IF r.ok /\ r.kind = "Archived"
  THEN [b EXCEPT !.log = @ \cup {LogLine("info", "Archived", link, r)}]
  ELSE IF r.ok \/ r.kind \in {"ExcludedUrl", "InvalidUrl"}
  THEN [b EXCEPT !.log = @ \cup {LogLine("info", "Skipped", link, r)}]
  ELSE [b EXCEPT !.log = @ \cup {LogLine("error", r.kind, link, r)},
                 !.exit_code = 1]

\* the match on what archive_url(link) returned, main.rs 60-75
MatchResult(b, link, r) ==
  IF r.ok /\ r.kind = "Archived"
  THEN [b EXCEPT !.log = @ \cup {LogLine("info", "Archived", link, r)}]
  ELSE IF r.ok \/ r.kind = "ExcludedUrl"
  THEN [b EXCEPT !.log = @ \cup {LogLine("info", "Skipped", link, r)}]
  ELSE [b EXCEPT !.log = @ \cup {LogLine("error", r.kind, link, r)},
                 !.exit_code = 1]

\* the loop takes a link that matches an --exclude pattern and skips it
MainSkip(t) ==
  /\ batch.pc = "loop"
  /\ call[t].pc = "idle"
  /\ \E url \in batch.links :
       /\ \E pattern \in world.exclude : IsMatch(pattern, url)
       /\ batch' = [batch EXCEPT
            !.links = @ \ {url},
            !.log = @ \cup {LogLine("info", "Skipped", url, NoResult)}]
  /\ UNCHANGED <<now, client_config, call, prev, ncalls, world, request, parse_input, parse_output>>

\* the loop takes a link that matches no pattern and calls archive_url
MainArchive(t) ==
  /\ batch.pc = "loop"
  /\ call[t].pc = "idle"
  /\ \E url \in batch.links :
       /\ ~\E pattern \in world.exclude : IsMatch(pattern, url)
       /\ batch' = [batch EXCEPT !.links = @ \ {url}]
       /\ call' = [call EXCEPT ![t] = ArchiveUrlBegins(url)]
  /\ UNCHANGED <<now, client_config, prev, ncalls, world, request, parse_input, parse_output>>

\* archive_url has returned: the loop logs the outcome and goes on
MainMatch(t) ==
  /\ batch.pc = "loop"
  /\ call[t].pc = "returned"
  /\ batch' = MatchResult(batch, call[t].url, call[t].result)
  /\ call' = [call EXCEPT ![t] = NoCall]
  /\ UNCHANGED <<now, client_config, prev, ncalls, world, request, parse_input, parse_output>>

\* the loop has run out of links: std::process::exit(exit_code)
MainExit(t) ==
  /\ batch.pc = "loop"
  /\ call[t].pc = "idle"
  /\ batch.links = {}
  /\ batch' = [batch EXCEPT !.pc = "exited"]
  /\ UNCHANGED <<now, client_config, call, prev, ncalls, world, request, parse_input, parse_output>>

NextMain ==
  \/ \E t \in Tasks : MainSkip(t)
  \/ \E t \in Tasks : MainArchive(t)
  \/ \E t \in Tasks : MainMatch(t)
  \/ \E t \in Tasks : MainExit(t)
  \/ \E t \in Tasks : Retry(t)
  \/ \E t \in Tasks : Resolve(t)
  \/ \E t \in Tasks : Check(t)
  \/ \E t \in Tasks : SubmitDone(t)

SpecMain == InitMain /\ [][NextMain]_vars

(***************************************************************************)
(* Properties.                                                             *)
(***************************************************************************)
\* the call issued a request to the submission endpoint
SubmitSent(c) == \E i \in 1..Len(c.sent) : c.sent[i].endpoint = "archive"

\* the requests the call issued to the check endpoint
CheckRequests(c) == {i \in 1..Len(c.sent) : c.sent[i].endpoint = "check"}

\* the cutoff fixed when the client was constructed
Threshold == client_config.archive_threshold_timestamp

\* the call has made exactly its first existence check, and the response held
\* exactly one timestamp newer than the cutoff
FirstCheckRecent(c) ==
  Len(c.check_results) = 1 /\ RecentTimestamp(c.last_check, Threshold) # <<>>

\* the call has made exactly its first existence check and not begun another,
\* and the response did not hold exactly one timestamp newer than the cutoff
FirstCheckNotRecent(c) ==
  /\ Len(c.check_results) = 1
  /\ c.last_check.sent
  /\ RecentTimestamp(c.last_check, Threshold) = <<>>

\* C1: a call whose first existence check gets a response with exactly one
\* timestamp newer than the cutoff has returned RecentArchiveExists and has
\* sent nothing to the submission endpoint.
C1_RecentMeansNoSubmission ==
  \A t \in Tasks :
    FirstCheckRecent(call[t]) =>
      /\ call[t].pc = "returned"
      /\ call[t].result = RecentArchiveExists
      /\ ~SubmitSent(call[t])
      /\ call[t].submit_requests = 0

C1_Witness ==
  \E t \in Tasks :
    /\ FirstCheckRecent(call[t])
    /\ call[t].pc = "returned"
    /\ call[t].to_check # call[t].to_archive

\* C2: when two successive calls of one task on the same URL both get, from
\* their first check, the same single timestamp newer than the cutoff, both
\* return RecentArchiveExists and neither sends anything to the submission
\* endpoint, however the wall clock moved in between.
C2_Idempotent ==
  \A t \in Tasks :
    (/\ prev[t].made
     /\ call[t].pc = "returned"
     /\ prev[t].url = call[t].url
     /\ prev[t].checked # <<>>
     /\ Len(call[t].check_results) = 1
     /\ call[t].last_check.sent
     /\ Len(call[t].last_check.body.rows) = 2
     /\ call[t].last_check.body.rows[2] = <<prev[t].checked>>)
    => /\ prev[t].result = "RecentArchiveExists"
       /\ call[t].result = RecentArchiveExists
       /\ ~prev[t].submitted
       /\ ~SubmitSent(call[t])
       /\ call[t].submit_requests = 0

C2_Witness ==
  \E t \in Tasks :
    /\ prev[t].made
    /\ call[t].pc = "returned"
    /\ prev[t].url = call[t].url
    /\ prev[t].checked # <<>>
    /\ FirstCheckRecent(call[t])
    /\ call[t].last_check.body.rows[2] = <<prev[t].checked>>
    /\ now # StartTime

\* the submission request of the call got a response with a non-success status
SubmitRefused(c) == c.response.kind = "response" /\ ~IsSuccess(c.response.status)

\* the submission request of the call got a response with a success status
SubmitAccepted(c) == c.response.kind = "response" /\ IsSuccess(c.response.status)

\* C3: after a submission response with a non-success status the call checks
\* the original input URL again; when that check's response holds exactly one
\* timestamp newer than the cutoff the call returns Ok, otherwise it returns
\* CannotArchive with the submission's status and the input URL; and
\* CannotArchive is returned only so.
C3_FalseNegativeGuard ==
  \A t \in Tasks :
    LET c == call[t] IN
    /\ SubmitRefused(c) =>
         /\ c.pc \in {"guard", "returned"}
         /\ c.last_check.arg = c.url
         /\ Len(c.sent) = 4
         /\ c.sent[4] = Location("check", UrlParse(c.url).url)
         /\ c.pc = "returned" =>
              /\ Len(c.check_results) = 2
              /\ IF RecentTimestamp(c.last_check, Threshold) # <<>>
                 THEN c.result.ok
                 ELSE c.result = CannotArchive(c.response.status, c.url)
    /\ c.result.kind = "CannotArchive" =>
         /\ SubmitRefused(c)
         /\ Len(c.check_results) = 2
         /\ RecentTimestamp(c.last_check, Threshold) = <<>>

C3_Witness ==
  \E t \in Tasks :
    /\ call[t].pc = "returned"
    /\ SubmitRefused(call[t])
    /\ call[t].result.kind = "CannotArchive"
    /\ call[t].to_check # call[t].to_archive
    /\ call[t].url # call[t].to_archive

C3_WitnessFalseNegative ==
  \E t \in Tasks :
    /\ call[t].pc = "returned"
    /\ SubmitRefused(call[t])
    /\ call[t].result.ok

\* C4: when the first check reports no recent snapshot and the submission
\* gets a success status, the call has returned Archived with the final
\* location of the submission response and has made no second check.
C4_SuccessIsArchived ==
  \A t \in Tasks :
    LET c == call[t] IN
    SubmitAccepted(c) =>
      /\ c.pc = "returned"
      /\ c.result = Archived(c.response.location)
      /\ c.response.location \in SubmitLocations(c.to_archive)
      /\ FirstCheckNotRecent(c)
      /\ Cardinality(CheckRequests(c)) = 1

C4_Witness ==
  \E t \in Tasks :
    /\ SubmitAccepted(call[t])
    /\ call[t].pc = "returned"
    /\ call[t].response.location.endpoint = "web"
    /\ call[t].submit_requests > 1

\* C5: a call whose input the validator rejects has returned the validator's
\* error, InvalidUrl or ExcludedUrl, and has issued no request.
C5_InvalidInputNoRequest ==
  \A t \in Tasks :
    LET c == call[t] IN
    (c.pc # "idle" /\ ~ArchivableUrlParse(c.url).ok) =>
      /\ c.pc = "returned"
      /\ c.result = ArchivableUrlParse(c.url)
      /\ c.result.kind \in {"InvalidUrl", "ExcludedUrl"}
      /\ c.sent = <<>>
      /\ c.submit_requests = 0
      /\ c.n_past_retries = 0

C5_Witness ==
  \E t \in Tasks :
    /\ call[t].pc = "returned"
    /\ call[t].result.kind = "ExcludedUrl"
    /\ call[t].sent = <<>>
    /\ prev[t].made
    /\ prev[t].result = "InvalidUrl"

\* C6 as stated: every submission request carries the resolved URL, the one
\* the check before it queried.
C6_SubmitsResolvedUrl ==
  \A t \in Tasks :
    \A i \in 1..Len(call[t].sent) :
      call[t].sent[i].endpoint = "archive" =>
        /\ call[t].sent[i].url = call[t].to_check
        /\ call[t].sent[i].url = call[t].sent[i - 1].url

\* C6 amended: every submission request carries the validated input URL, as it
\* was before the redirects were resolved; that is the URL the check before it
\* queried exactly when the resolution gave no other location.
C6_SubmitsInputUrl ==
  \A t \in Tasks :
    \A i \in 1..Len(call[t].sent) :
      call[t].sent[i].endpoint = "archive" =>
        /\ i = 3
        /\ call[t].sent[i].url = UrlParse(call[t].url).url
        /\ call[t].sent[i].url = call[t].sent[1].url
        /\ call[t].sent[i - 1] = Location("check", call[t].to_check)
        /\ (call[t].sent[i].url = call[t].sent[i - 1].url)
             <=> (call[t].to_check = call[t].to_archive)

C6_Witness ==
  \E t \in Tasks :
    /\ SubmitSent(call[t])
    /\ call[t].to_check # call[t].to_archive
    /\ call[t].sent[3].url # call[t].sent[2].url

\* a header row and exactly one result row of exactly one field
OneRecord(rows) == Len(rows) = 2 /\ Len(rows[2]) = 1

\* C7: an existence check that got a response succeeds exactly when the body
\* is rows holding one record whose timestamp parses and is strictly newer
\* than the cutoff; a timestamp equal to or older than the cutoff gives
\* NoRecentArchive.
C7_CheckSucceedsIffNewer ==
  \A t \in Tasks :
    LET k == call[t].last_check
        one == k.body.json = "rows" /\ OneRecord(k.body.rows)
        parsed == ParseFromStr(k.body.rows[2][1])
    IN (k.sent /\ k.result.kind # "") =>
         /\ k.result.ok <=>
              (one /\ parsed.ok /\ DateTimeGt(parsed.value, Threshold))
         /\ (one /\ parsed.ok /\ ~DateTimeGt(parsed.value, Threshold))
              => k.result.kind = "NoRecentArchive"

C7_Witness ==
  \E t \in Tasks :
    /\ call[t].last_check.sent
    /\ call[t].last_check.body = Rows(<<Header, <<TsEqual>>>>)
    /\ call[t].last_check.result.kind = "NoRecentArchive"
    /\ now # StartTime

\* C8: a check whose response is rows that are not a header row and one
\* result row of one field fails with NoRecentArchive, also when a row holds a
\* timestamp newer than the cutoff.
C8_OtherShapesNoRecentArchive ==
  \A t \in Tasks :
    LET k == call[t].last_check IN
    (k.sent /\ k.result.kind # "" /\ k.body.json = "rows" /\ ~OneRecord(k.body.rows)) =>
      /\ ~k.result.ok
      /\ k.result.kind = "NoRecentArchive"

C8_Witness ==
  \E t \in Tasks :
    /\ call[t].last_check.sent
    /\ call[t].last_check.body = Rows(<<Header, <<TsOlder>>, <<TsNewer>>>>)
    /\ call[t].last_check.result.kind = "NoRecentArchive"

\* C9: when the first check does not report a recent snapshot the call goes
\* on to the submission request; no call returns the check's own error; and
\* a submission that succeeds then gives an Ok result.
C9_FailedCheckPermitsSubmission ==
  \A t \in Tasks :
    LET c == call[t] IN
    /\ FirstCheckNotRecent(c) =>
         /\ c.pc \in {"submit", "returned"}
         /\ c.sent[Len(c.sent)] = Location("archive", c.to_archive)
         /\ c.pc = "returned" =>
              (SubmitAccepted(c) => c.result.ok)
    /\ c.result.kind \notin {"CannotCheckArchive", "NoRecentArchive"}

C9_Witness ==
  \E t \in Tasks :
    /\ FirstCheckNotRecent(call[t])
    /\ call[t].last_check.result.kind = "CannotCheckArchive"
    /\ call[t].last_check.body = ObjectBody
    /\ call[t].pc = "returned"
    /\ call[t].result.ok

\* C10: when the resolve request fails the call goes on to check the
\* validated input URL; an error it returns then comes from the submission.
C10_ResolveFailureFallsBack ==
  \A t \in Tasks :
    LET c == call[t] IN
    c.resolve_failed =>
      /\ c.to_check = c.to_archive
      /\ Len(c.sent) >= 2
      /\ c.sent[2] = Location("check", c.to_archive)
      /\ (c.pc = "returned" /\ ~c.result.ok) =>
           /\ SubmitSent(c)
           /\ c.result.kind \in {"RequestFailed", "CannotArchive"}

C10_Witness ==
  \E t \in Tasks :
    /\ call[t].resolve_failed
    /\ call[t].pc = "returned"
    /\ call[t].result.kind = "RecentArchiveExists"

\* the resolve request got a response whose final location the validator
\* rejects
ResolvedInvalid(c) ==
  c.resolved # NoLocation /\ ~ArchivableUrlParse(c.resolved.url).ok

\* C11: a call whose resolve request got a response with a final location
\* that fails validation has returned that validation error, and has issued
\* no request but the resolve request: no check and no submission.
C11_InvalidRedirectAborts ==
  \A t \in Tasks :
    LET c == call[t] IN
    ResolvedInvalid(c) =>
      /\ c.pc = "returned"
      /\ c.result = ArchivableUrlParse(c.resolved.url)
      /\ c.result.kind \in {"InvalidUrl", "ExcludedUrl"}
      /\ c.sent = <<Location("", c.to_archive)>>
      /\ c.check_results = <<>>
      /\ ~c.last_check.sent
      /\ c.submit_requests = 0

C11_Witness ==
  \E t \in Tasks :
    /\ ResolvedInvalid(call[t])
    /\ call[t].pc = "returned"
    /\ call[t].resolved.url.host = Domain(localhost)
    /\ call[t].result.kind = "InvalidUrl"
    /\ prev[t].made
    /\ prev[t].result = "ExcludedUrl"
    /\ prev[t].url = call[t].url

\* the endpoints of the requests of one call, in their order
StageOrder == <<"", "check", "archive", "check">>

\* how many requests a call has issued when it waits in a stage
StageRequests == [resolve |-> 1, check |-> 2, submit |-> 3, guard |-> 4]

\* C12: the requests of one call are a prefix of resolve, check, submission,
\* check; a call waiting in a stage has issued exactly the requests up to
\* that stage; there are at most two checks, and the second one comes only
\* after a submission response with a non-success status; and within a call
\* the requests issued are only ever added to.
C12_StagesOnceInOrder ==
  /\ [](\A t \in Tasks :
         LET c == call[t] IN
         /\ Len(c.sent) <= Len(StageOrder)
         /\ \A i \in 1..Len(c.sent) : c.sent[i].endpoint = StageOrder[i]
         /\ c.pc \in DOMAIN StageRequests => Len(c.sent) = StageRequests[c.pc]
         /\ Len(c.check_results) <= 2
         /\ Len(c.check_results) <= Cardinality(CheckRequests(c))
         /\ (Len(c.sent) = 4 \/ Len(c.check_results) = 2) =>
              /\ SubmitRefused(c)
              /\ c.submit_requests >= 1)
  /\ [][\A t \in Tasks :
         ncalls'[t] = ncalls[t] =>
           /\ Len(call'[t].sent) >= Len(call[t].sent)
           /\ SubSeq(call'[t].sent, 1, Len(call[t].sent)) = call[t].sent
           /\ Len(call'[t].check_results) >= Len(call[t].check_results)]_vars

C12_Witness ==
  \E t \in Tasks :
    /\ call[t].pc = "returned"
    /\ Len(call[t].sent) = 4
    /\ Len(call[t].check_results) = 2
    /\ call[t].submit_requests > 1
    /\ call[t].to_check # call[t].to_archive

\* the submission of the call is over, and every attempt of it was answered
\* with status 520
SubmitAnswered520(c) ==
  c.pc \in {"guard", "returned"} /\ c.submit_requests > 0 /\ c.submit_only_520

\* C13: when every attempt of the submission is answered 520, the transport
\* sends it again until the retries are used up, so the submission endpoint
\* gets max_request_retries + 1 requests; and when the check after it
\* reports no recent snapshot either, the call fails with CannotArchive.
C13_Submit520ExhaustsRetries ==
  \A t \in Tasks :
    LET c == call[t] IN
    /\ (c.pc = "submit" /\ c.submit_only_520) =>
         /\ c.submit_requests = c.n_past_retries
         /\ c.n_past_retries <= client_config.max_request_retries
    /\ SubmitAnswered520(c) =>
         /\ c.submit_requests = client_config.max_request_retries + 1
         /\ c.submit_requests >= client_config.max_request_retries
         /\ c.response.status = 520
         /\ (c.pc = "returned" /\ ~c.last_check.result.ok) =>
              c.result = CannotArchive(520, c.url)

C13_Witness ==
  \E t \in Tasks :
    /\ SubmitAnswered520(call[t])
    /\ call[t].pc = "returned"
    /\ call[t].check_results = <<"CannotCheckArchive", "CannotCheckArchive">>
    /\ call[t].last_check.body = ObjectBody
    /\ call[t].submit_requests = MAX_REQUEST_RETRIES + 1
    /\ call[t].result.kind = "CannotArchive"

\* attempt i of the request was not handed back: the request was sent again
Resent(i) == i < Len(request.attempts) \/ request.pc = "sent"

\* the retries never exceed max_request_retries, and what send() returns is
\* the outcome of the last attempt, unchanged
RetriesBounded ==
  /\ request.n_past_retries <= client_config.max_request_retries
  /\ Len(request.attempts) <= client_config.max_request_retries + 1
  /\ request.pc = "returned" =>
       /\ Len(request.attempts) = request.n_past_retries + 1
       /\ request.returned = request.attempts[Len(request.attempts)]

\* a connection-level error
ConnectionError(o) == o.kind = "error" /\ o.error \in {"connect", "timeout"}

\* C14 as stated: an attempt that ends with a 5xx response or a
\* connection-level error is retried while retries are left, an attempt that
\* ends with a 4xx response is not retried, the retries never exceed
\* max_request_retries and the last outcome is returned unchanged.
C14_RetriesAsStated ==
  /\ \A i \in 1..Len(request.attempts) :
       LET o == request.attempts[i] IN
       /\ (ConnectionError(o) \/ (o.kind = "response" /\ o.status \in 500..599)) =>
            (Resent(i) <=> i <= client_config.max_request_retries)
       /\ (o.kind = "response" /\ o.status \in 400..499) => ~Resent(i)
  /\ RetriesBounded

\* C14 amended: an attempt that ends with a 5xx, a 408 or a 429 response or a
\* connection-level error is retried while retries are left, an attempt that
\* ends with anything else is not retried, the retries never exceed
\* max_request_retries and the last outcome is returned unchanged.
C14_RetriesTransientOnly ==
  /\ \A i \in 1..Len(request.attempts) :
       LET o == request.attempts[i] IN
       IF \/ ConnectionError(o)
          \/ o.kind = "response" /\ (o.status \in 500..599 \/ o.status \in {408, 429})
       THEN Resent(i) <=> i <= client_config.max_request_retries
       ELSE ~Resent(i)
  /\ RetriesBounded

C14_Witness ==
  /\ request.pc = "returned"
  /\ Len(request.attempts) = MAX_REQUEST_RETRIES + 1
  /\ request.attempts[1].status = 429
  /\ request.attempts[2].error = "connect"
  /\ request.returned.status = 520

\* ArchivableUrl::parse has returned
ParseReturned == parse_output # NoResult

\* the host of the URL that Url::parse makes of the input, NoHost when it
\* makes none
ParsedHost ==
  IF UrlParse(parse_input).ok THEN UrlParse(parse_input).url.host ELSE NoHost

\* the URL's host is a domain that contains `pat`
DomainContains(pat) == ParsedHost.kind = "domain" /\ Contains(ParsedHost.name, pat)

\* the URL's host is a domain that contains an entry of the denylist
DomainDenylisted ==
  \E i \in 1..Len(EXCLUDED_DOMAINS) : DomainContains(EXCLUDED_DOMAINS[i])

\* C15 as stated: parse fails with InvalidUrl on every input whose scheme is
\* not http or https, whatever its host is.
C15_NonHttpSchemeInvalid ==
  (ParseReturned /\ parse_input.scheme \notin {"http", "https"}) =>
    /\ ~parse_output.ok
    /\ parse_output.kind = "InvalidUrl"

\* C15 amended: parse fails on every input whose scheme is not http or https:
\* with ExcludedUrl when the host is a domain that contains a denylist entry
\* and does not contain "localhost", with InvalidUrl otherwise.
C15_NonHttpSchemeFails ==
  (ParseReturned /\ parse_input.scheme \notin {"http", "https"}) =>
    /\ ~parse_output.ok
    /\ parse_output.kind =
         IF DomainDenylisted /\ ~DomainContains(localhost)
         THEN "ExcludedUrl" ELSE "InvalidUrl"

C15_Witness ==
  /\ ParseReturned
  /\ parse_input = UrlString("ftp", Domain(example_com), "")
  /\ parse_output = Err("InvalidUrl", UrlString("ftp", Domain(example_com), "/"), "")

\* Ipv6Addr::is_unspecified, is_unique_local
Ipv6IsUnspecified(a) == a = <<0, 0, 0, 0, 0, 0, 0, 0>>
Ipv6IsUniqueLocal(a) == a[1] \div 512 = 126

\* the URL's host is an IP address that is loopback, private-range, multicast
\* or unspecified
LocalIp ==
  \/ ParsedHost.kind = "ipv4"
       /\ (\/ Ipv4IsLoopback(ParsedHost.addr) \/ Ipv4IsPrivate(ParsedHost.addr)
           \/ Ipv4IsMulticast(ParsedHost.addr) \/ Ipv4IsUnspecified(ParsedHost.addr))
  \/ ParsedHost.kind = "ipv6"
       /\ (\/ Ipv6IsLoopback(ParsedHost.addr) \/ Ipv6IsUniqueLocal(ParsedHost.addr)
           \/ Ipv6IsMulticast(ParsedHost.addr) \/ Ipv6IsUnspecified(ParsedHost.addr))

\* C16: parse fails with InvalidUrl on every URL whose host is an IPv4 or
\* IPv6 address that is loopback, private-range, multicast or unspecified.
C16_LocalIpInvalid ==
  (ParseReturned /\ LocalIp) =>
    /\ ~parse_output.ok
    /\ parse_output.kind = "InvalidUrl"

\* C17 as stated: parse fails with ExcludedUrl on every URL whose domain
\* contains a denylist entry.
C17_DenylistedExcluded ==
  (ParseReturned /\ DomainDenylisted) =>
    /\ ~parse_output.ok
    /\ parse_output.kind = "ExcludedUrl"

\* C17 amended: parse fails with ExcludedUrl, not InvalidUrl, on every URL
\* whose domain contains a denylist entry and does not contain "localhost".
C17_DenylistedNotLocalhostExcluded ==
  (ParseReturned /\ DomainDenylisted /\ ~DomainContains(localhost)) =>
    /\ ~parse_output.ok
    /\ parse_output.kind = "ExcludedUrl"

C17_Witness ==
  /\ ParseReturned
  /\ parse_input.host = Domain(<<"m", "y", "j", "s", "t", "o", "r", ".", "o", "r", "g", ".", "e", "x", "a", "m", "p", "l", "e", ".", "c", "o", "m">>)
  /\ parse_input.scheme = "https"
  /\ parse_output.kind = "ExcludedUrl"

\* C18: parse fails with InvalidUrl on every URL whose domain contains
\* "localhost".
C18_LocalhostInvalid ==
  (ParseReturned /\ DomainContains(localhost)) =>
    /\ ~parse_output.ok
    /\ parse_output.kind = "InvalidUrl"

C18_Witness ==
  /\ ParseReturned
  /\ parse_input.host = Domain(<<"l", "o", "c", "a", "l", "h", "o", "s", "t", ".", "l", "o", "c", "a", "l", "d", "o", "m", "a", "i", "n">>)
  /\ parse_input.scheme = "http"
  /\ parse_output.kind = "InvalidUrl"

\* C19: the cutoff of the client's configuration is at all times the one
\* computed when the client was constructed, the construction time less the
\* threshold, and every existence check of every call compares with it,
\* whatever the wall clock shows by then.
C19_CutoffFixedAtConstruction ==
  /\ client_config.archive_threshold_timestamp =
       SubDays(StartTime, DEFAULT_ARCHIVE_THRESHOLD_DAYS)
  /\ \A t \in Tasks :
       call[t].last_check.sent =>
         call[t].last_check.cutoff = SubDays(StartTime, DEFAULT_ARCHIVE_THRESHOLD_DAYS)

C19_Witness ==
  \E t \in Tasks :
    /\ prev[t].made
    /\ prev[t].checked # <<>>
    /\ Len(call[t].check_results) = 2
    /\ call[t].last_check.sent
    /\ call[t].last_check.body = Rows(<<Header, <<TsEqual>>>>)
    /\ now # StartTime

\* the requests archive_url(c.url) issues by itself, given the responses the
\* call got, as far as the call has come
OwnRequests(c) ==
  LET to_archive == ArchivableUrlParse(c.url)
      to_check == IF c.resolve_failed THEN to_archive.url ELSE c.resolved.url
  IN IF ~to_archive.ok THEN <<>>
     ELSE SubSeq(<<Location("", to_archive.url), Location("check", to_check),
                   Location("archive", to_archive.url),
                   Location("check", to_archive.url)>>, 1, Len(c.sent))

\* the result archive_url(c.url) returns by itself, given the responses the
\* call got
OwnResult(c) ==
  LET to_archive == ArchivableUrlParse(c.url) IN
  IF ~to_archive.ok THEN to_archive
  ELSE IF ResolvedInvalid(c) THEN ArchivableUrlParse(c.resolved.url)
  ELSE IF c.check_results[1] = "Ok" THEN RecentArchiveExists
  ELSE IF c.response = NoResponse THEN Err("RequestFailed", NoString, c.result.detail)
  ELSE IF IsSuccess(c.response.status) \/ c.last_check.result.ok
  THEN Archived(c.response.location)
  ELSE CannotArchive(c.response.status, c.url)

\* C20: with calls of several tasks under way on one client, each call's
\* requests and result are those archive_url makes of the call's own URL and
\* of the responses to its own requests; and a step of one call leaves the
\* other tasks' calls and the client's configuration as they were.
C20_ConcurrentCallsIndependent ==
  /\ [](\A t \in Tasks :
         LET c == call[t] IN
         c.pc # "idle" =>
           /\ c.sent = OwnRequests(c)
           /\ c.pc = "returned" => c.result = OwnResult(c)
           /\ (c.last_check.sent /\ c.last_check.body.json = "rows") =>
                c.last_check.result =
                  MatchRows(c.last_check.body.rows, c.last_check.arg, Threshold))
  /\ [][\A t \in Tasks :
         call'[t] # call[t] =>
           /\ \A u \in Tasks \ {t} :
                call'[u] = call[u] /\ prev'[u] = prev[u] /\ ncalls'[u] = ncalls[u]
           /\ client_config' = client_config]_vars

C20_Witness ==
  \E t, u \in Tasks :
    /\ t # u
    /\ call[t].pc = "returned"
    /\ call[t].result.kind = "CannotArchive"
    /\ call[u].pc = "submit"
    /\ call[u].n_past_retries = ConcurrentRetries
    /\ call[u].url # call[t].url
    /\ call[u].to_check = call[t].to_archive

\* the kinds of error the batch caller is to report as failures of one URL
Failures == {"RequestFailed", "CannotCheckArchive", "CannotArchive"}

\* every link of the document is still to be taken, is the argument of the
\* call under way, or has its line in the log
Accounted ==
  \A link \in world.urls :
    \/ link \in batch.links
    \/ \E t \in Tasks : call[t].pc # "idle" /\ call[t].url = link
    \/ \E e \in batch.log : e.link = link

\* the loop has taken every link and logged one line for each
AllProcessed ==
  /\ batch.links = {}
  /\ \A t \in Tasks : call[t].pc = "idle"
  /\ \A link \in world.urls : Cardinality({e \in batch.log : e.link = link}) = 1

\* C21 as stated: both InvalidUrl and ExcludedUrl are logged as skips and leave
\* the exit code alone, so that the run is marked failed only by a
\* RequestFailed, CannotCheckArchive or CannotArchive, each of which is
\* reported as an error; and the loop processes every link.
C21_InvalidAndExcludedSkipped ==
  /\ \A e \in batch.log :
       /\ e.result.kind \in {"InvalidUrl", "ExcludedUrl"} => e.level = "info"
       /\ e.result.kind \in Failures => e.level = "error"
  /\ batch.exit_code = 1 => \E e \in batch.log : e.result.kind \in Failures
  /\ Accounted
  /\ batch.pc = "exited" => AllProcessed

\* C21: the batch caller logs ExcludedUrl as a skip that leaves the exit code
\* alone; it reports InvalidUrl, like RequestFailed, CannotCheckArchive and
\* CannotArchive, as an error and sets the exit code to 1, so that the exit
\* code is 1 exactly when some URL was reported as an error; and in every
\* case the loop goes on: no link is dropped, and at exit every link has been
\* processed and has its one line in the log.
C21_OnlyExcludedSkipped ==
  /\ \A e \in batch.log :
       /\ e.result.kind = "ExcludedUrl" => e.level = "info" /\ e.text = "Skipped"
       /\ e.result.kind \in {"InvalidUrl"} \cup Failures => e.level = "error"
       /\ e.level = "error" <=> (~e.result.ok /\ e.result.kind \notin {"", "ExcludedUrl"})
  /\ batch.exit_code = (IF \E e \in batch.log : e.level = "error" THEN 1 ELSE 0)
  /\ Accounted
  /\ batch.pc = "exited" => AllProcessed

C21_Witness ==
  /\ batch.pc = "exited"
  /\ batch.exit_code = 1
  /\ \E e \in batch.log : e.level = "info" /\ e.result.kind = "ExcludedUrl"
  /\ \E e \in batch.log : e.level = "error" /\ e.result.kind = "InvalidUrl"
  /\ \E e \in batch.log : e.level = "info" /\ e.result.kind = "Archived"
  /\ ~\E e \in batch.log : e.result.kind \in Failures
  /\ AllProcessed

\* a document whose links fail with RequestFailed and CannotArchive in turn
C21_WitnessFailures ==
  /\ batch.pc = "exited"
  /\ \E e \in batch.log : e.level = "error" /\ e.result.kind = "CannotArchive"
  /\ AllProcessed

\* the request in flight of the call, or its last one, was retried `n` times
\* and every attempt failed to connect
ConnectFailedAfter(c, n) ==
  /\ c.pc = "returned"
  /\ c.result = Err("RequestFailed", NoString, "connect")
  /\ c.n_past_retries = n

\* C22 as stated: the client built from the default configuration has a
\* retry ceiling of 5: no request is retried more than 5 times.
C22_DefaultCeilingFive ==
  /\ client_config.max_request_retries = 5
  /\ \A t \in Tasks : call[t].n_past_retries <= 5

\* C22: the client built from the default configuration has a retry ceiling
\* of 10: no request is retried more than 10 times, and a request whose
\* attempts all fail to connect is given up only after 10 retries.
C22_DefaultCeilingTen ==
  /\ client_config.max_request_retries = 10
  /\ \A t \in Tasks :
       /\ call[t].n_past_retries <= 10
       /\ call[t].submit_requests <= 11
       /\ (call[t].pc = "returned" /\ call[t].result.kind = "RequestFailed"
             /\ call[t].result.detail = "connect") => call[t].n_past_retries = 10

C22_Witness == \E t \in Tasks : ConnectFailedAfter(call[t], 10) /\ call[t].submit_requests = 11

\* the submission request of the call ended without a response: the
\* transport handed back an error
SubmitFailed(c) == c.pc = "returned" /\ SubmitSent(c) /\ c.response = NoResponse

\* C23: when the submission request ends in a transport error (at once for a
\* permanent one, after the retries are used up for a transient one), the
\* call returns RequestFailed with that error, having issued the resolve
\* request, one check and the submission and no check after it; RequestFailed
\* is returned only so; and the check after the submission is made only when
\* the submission got a response with a non-success status.
C23_TransportFailureSkipsGuard ==
  \A t \in Tasks :
    LET c == call[t] IN
    /\ SubmitFailed(c) =>
         /\ c.result = Err("RequestFailed", NoString, c.result.detail)
         /\ c.result.detail \in world.errors
         /\ Retryable(TransportError(c.result.detail)) =>
              c.submit_requests = client_config.max_request_retries + 1
         /\ Len(c.sent) = 3
         /\ c.sent[3].endpoint = "archive"
         /\ Len(c.check_results) = 1
    /\ c.result.kind = "RequestFailed" => SubmitFailed(c)
    /\ (c.pc = "guard" \/ Len(c.check_results) = 2 \/ Len(c.sent) = 4) =>
         SubmitRefused(c)

C23_Witness ==
  \E t \in Tasks :
    /\ SubmitFailed(call[t])
    /\ call[t].result.kind = "RequestFailed"
    /\ call[t].result.detail = "connect"
    /\ call[t].submit_requests = client_config.max_request_retries + 1
    /\ prev[t].made
    /\ prev[t].result = "CannotArchive"

\* a permanent transport error: RequestFailed without a retry
C23_WitnessPermanent ==
  \E t \in Tasks :
    /\ SubmitFailed(call[t])
    /\ call[t].result.detail = "redirect"
    /\ call[t].submit_requests = 1

\* the requests the call issued to the check endpoint or to the submission
\* endpoint
ServiceRequests(c) ==
  {i \in 1..Len(c.sent) : c.sent[i].endpoint \in {"check", "archive"}}

\* C24: every URL in a request to the check endpoint or to the submission
\* endpoint is one ArchivableUrl::parse accepts, and is what it returns for
\* the call's input URL or for the URL the resolve request ended at.
C24_RequestsOnlyForValidUrls ==
  \A t \in Tasks :
    LET c == call[t] IN
    \A i \in ServiceRequests(c) :
      /\ ArchivableUrlParse(c.sent[i].url).ok
      /\ \/ c.sent[i].url = ArchivableUrlParse(c.url).url
         \/ /\ c.sent[i].endpoint = "check"
            /\ ~c.resolve_failed
            /\ c.sent[i].url = ArchivableUrlParse(c.resolved.url).url

C24_Witness ==
  \E t \in Tasks :
    /\ Len(call[t].sent) = 4
    /\ ServiceRequests(call[t]) = {2, 3, 4}
    /\ call[t].sent[2].url # call[t].sent[3].url
    /\ call[t].sent[2].url \in world.redirects
    /\ prev[t].made
    /\ prev[t].result = "ExcludedUrl"
    /\ \E r \in world.redirects : ~ArchivableUrlParse(r).ok

\* the call is under way: archive_url was called and has not returned
InFlight(c) == c.pc \in {"resolve", "check", "submit", "guard"}

\* the outcomes archive_url returns
Outcome(r) ==
  \/ r.ok /\ r.kind \in {"Archived", "RecentArchiveExists"}
  \/ ~r.ok /\ r.kind \in {"InvalidUrl", "ExcludedUrl", "RequestFailed",
                          "CannotArchive", "CannotCheckArchive"}

\* C25: a call under way has issued at most four requests, the one in flight
\* retried at most max_request_retries times, and has no outcome yet; a call
\* that returned has one outcome, which stays until the task calls again;
\* and, each attempt ending, every call under way eventually returns.
C25_CallTerminates ==
  /\ [](\A t \in Callers :
         LET c == call[t] IN
         /\ Len(c.sent) <= 4
         /\ c.n_past_retries <= client_config.max_request_retries
         /\ InFlight(c) => c.result = NoResult /\ Len(c.sent) >= 1
         /\ c.pc = "returned" => Outcome(c.result))
  /\ [][\A t \in Callers :
         (call[t].pc = "returned" /\ ncalls'[t] = ncalls[t]) =>
           call'[t] = call[t]]_vars
  /\ \A t \in Callers : InFlight(call[t]) ~> (call[t].pc = "returned")

C25_Witness ==
  \E t \in Callers :
    /\ call[t].pc = "returned"
    /\ call[t].result.kind = "CannotArchive"
    /\ Len(call[t].sent) = 4
    /\ call[t].n_past_retries = client_config.max_request_retries
    /\ call[t].submit_requests = client_config.max_request_retries + 1
    /\ call[t].resolve_failed

====
